---- MODULE Spec2Model ----
(***************************************************************************)
(* Model of the Discord -> SP chat bridge bot (bot/src/main.rs and         *)
(* bot/src/fwd.rs): the channel directory parsed from CHANNEL_MAPPINGS,    *)
(* the message formatter, forward_message and the serenity event handler.  *)
(*                                                                         *)
(* Strings are sequences of one-character strings, so that split, trim,    *)
(* starts_with and replace are computed as the Rust code computes them.    *)
(***************************************************************************)
EXTENDS Integers, Sequences, FiniteSets

(***************************************************************************)
(* Bounds of the model.                                                    *)
(***************************************************************************)
\* number of message events the gateway delivers in one run
MaxInv == 2
\* longest CHANNEL_MAPPINGS string enumerated for the directory parser
MaxMapLen == 6

(***************************************************************************)
(* String helpers (Rust std::str).                                         *)
(***************************************************************************)
\* char::is_whitespace, restricted to the characters the model uses
IsWhitespace(c) == c \in {" ", "\n"}

RECURSIVE TrimStart(_)
\* str::trim_start
TrimStart(s) ==
    IF s # <<>> /\ IsWhitespace(Head(s)) THEN TrimStart(Tail(s)) ELSE s

RECURSIVE TrimEnd(_)
\* str::trim_end
TrimEnd(s) ==
    IF s # <<>> /\ IsWhitespace(s[Len(s)])
    THEN TrimEnd(SubSeq(s, 1, Len(s) - 1))
    ELSE s

\* str::trim
Trim(s) == TrimEnd(TrimStart(s))

\* str::starts_with
StartsWith(s, p) == Len(s) >= Len(p) /\ SubSeq(s, 1, Len(p)) = p

RECURSIVE SplitFrom(_, _, _)
\* the fields of s separated by the character c, cur being the field in progress
SplitFrom(s, c, cur) ==
    IF s = <<>> THEN <<cur>>
    ELSE IF Head(s) = c THEN <<cur>> \o SplitFrom(Tail(s), c, <<>>)
    ELSE SplitFrom(Tail(s), c, Append(cur, Head(s)))

\* str::split(char): always at least one field, empty fields kept
Split(s, c) == SplitFrom(s, c, <<>>)

\* Replace with str::replacen(pat, rep, 1): the first occurrence only
ReplaceFirst(s, pat, rep) ==
    IF \E k \in 1..(Len(s) - Len(pat) + 1) : SubSeq(s, k, k + Len(pat) - 1) = pat
    THEN LET k == CHOOSE k \in 1..(Len(s) - Len(pat) + 1) :
                      /\ SubSeq(s, k, k + Len(pat) - 1) = pat
                      /\ \A j \in 1..(k - 1) : SubSeq(s, j, j + Len(pat) - 1) # pat
         IN  SubSeq(s, 1, k - 1) \o rep \o SubSeq(s, k + Len(pat), Len(s))
    ELSE s

RECURSIVE Replace(_, _, _)
\* str::replace: every non-overlapping occurrence of pat, left to right
Replace(s, pat, rep) ==
    IF Len(s) < Len(pat) THEN s
    ELSE IF SubSeq(s, 1, Len(pat)) = pat
         THEN rep \o Replace(SubSeq(s, Len(pat) + 1, Len(s)), pat, rep)
         ELSE <<Head(s)>> \o Replace(Tail(s), pat, rep)

\* one decimal digit as a character
Digit(d) == <<"0", "1", "2", "3", "4", "5", "6", "7", "8", "9">>[d + 1]

RECURSIVE to_string(_)
\* u64::to_string (Display of ChannelId, UserId, RoleId)
to_string(n) ==
    IF n < 10 THEN <<Digit(n)>> ELSE Append(to_string(n \div 10), Digit(n % 10))

(***************************************************************************)
(* Channel directory (fwd.rs 198-233).                                     *)
(***************************************************************************)
\* std::env::var("CHANNEL_MAPPINGS") is Err: the variable is not set
NoEnv == [set |-> FALSE, val |-> <<>>]

\* std::env::var("CHANNEL_MAPPINGS") is Ok(s)
EnvSet(s) == [set |-> TRUE, val |-> s]

RECURSIVE InsertPairsKeepFirst(_, _)
\* InsertPairs with entry(key).or_insert(value) for insert(key, value)
InsertPairsKeepFirst(pairs, mappings) ==
    IF pairs = <<>> THEN mappings
    ELSE LET parts == Split(Head(pairs), "=")
             next  == IF Len(parts) = 2 /\ Trim(parts[1]) \notin DOMAIN mappings
                      THEN [k \in DOMAIN mappings \cup {Trim(parts[1])} |->
                               IF k = Trim(parts[1]) THEN Trim(parts[2])
                               ELSE mappings[k]]
                      ELSE mappings
         IN  InsertPairsKeepFirst(Tail(pairs), next)

RECURSIVE InsertPairsRaw(_, _)
\* InsertPairs without the trim of the two fields
InsertPairsRaw(pairs, mappings) ==
    IF pairs = <<>> THEN mappings
    ELSE LET parts == Split(Head(pairs), "=")
             next  == IF Len(parts) = 2
                      THEN [k \in DOMAIN mappings \cup {parts[1]} |->
                               IF k = parts[1] THEN parts[2] ELSE mappings[k]]
                      ELSE mappings
         IN  InsertPairsRaw(Tail(pairs), next)

RECURSIVE InsertPairs(_, _)
\* the loop of get_channel_mappings over the pairs, mappings being the map so far
InsertPairs(pairs, mappings) ==
    IF pairs = <<>> THEN mappings
    ELSE LET parts == Split(Head(pairs), "=")
             next  == IF Len(parts) = 2
                      THEN [k \in DOMAIN mappings \cup {Trim(parts[1])} |->
                               IF k = Trim(parts[1]) THEN Trim(parts[2])
                               ELSE mappings[k]]
                      ELSE mappings
         IN  InsertPairs(Tail(pairs), next)

\* get_channel_mappings falling back to a built-in mapping string when the
\* variable is not set
get_channel_mappings_fallback(e) ==
    IF ~e.set THEN InsertPairs(Split(<<"1", "=", "d", "i", "d", ":", "p", "l", "c", ":", "a">>, ","), << >>)
    ELSE InsertPairs(Split(e.val, ","), << >>)

\* get_channel_mappings: the HashMap built from the environment value e
get_channel_mappings(e) ==
    IF ~e.set THEN << >>
    ELSE InsertPairs(Split(e.val, ","), << >>)

\* get_streamer_for_channel reading the pairs without trimming them
get_streamer_untrimmed(e, channel_id) ==
    LET mappings == IF ~e.set THEN << >>
                    ELSE InsertPairsRaw(Split(e.val, ","), << >>)
    IN  IF channel_id \in DOMAIN mappings
        THEN [ok |-> TRUE, val |-> mappings[channel_id]]
        ELSE [ok |-> FALSE, val |-> <<>>]

\* get_streamer_for_channel with unwrap_or_default for ok_or_else
get_streamer_or_default(e, channel_id) ==
    LET mappings == get_channel_mappings(e)
    IN  IF channel_id \in DOMAIN mappings
        THEN [ok |-> TRUE, val |-> mappings[channel_id]]
        ELSE [ok |-> TRUE, val |-> <<>>]

\* get_streamer_for_channel: Ok(the mapped DID string), or the Err of a
\* channel with no mapping
get_streamer_for_channel(e, channel_id) ==
    LET mappings == get_channel_mappings(e)
    IN  IF channel_id \in DOMAIN mappings
        THEN [ok |-> TRUE, val |-> mappings[channel_id]]
        ELSE [ok |-> FALSE, val |-> <<>>]

\* should_forward_channel that lets every channel through
should_forward_any(e, channel_id) == TRUE

\* should_forward_channel
should_forward_channel(e, channel_id) ==
    channel_id \in DOMAIN get_channel_mappings(e)

(***************************************************************************)
(* Message formatter (fwd.rs 151-196).                                     *)
(***************************************************************************)
\* msg.guild_id is None (a direct message); a GuildId is never zero
NoGuild == 0

\* the literal " (Discord):" of the attribution prefix
DiscordLabel == <<" ", "(", "D", "i", "s", "c", "o", "r", "d", ")", ":">>

RECURSIVE ReplaceUsers(_, _)
\* the loop over msg.mentions: "<@id>" becomes "@display_name"
ReplaceUsers(content, users) ==
    IF users = <<>> THEN content
    ELSE LET user            == Head(users)
             mention_pattern == <<"<", "@">> \o to_string(user.id) \o <<">">>
         IN  ReplaceUsers(
                 Replace(content, mention_pattern, <<"@">> \o user.display_name),
                 Tail(users))

RECURSIVE ReplaceChannels(_, _)
\* the loop over msg.mention_channels: "<#id>" becomes "#name"
ReplaceChannels(content, channels) ==
    IF channels = <<>> THEN content
    ELSE LET channel_mention == Head(channels)
             mention_pattern == <<"<", "#">> \o to_string(channel_mention.id) \o <<">">>
         IN  ReplaceChannels(
                 Replace(content, mention_pattern, <<"#">> \o channel_mention.name),
                 Tail(channels))

RECURSIVE ReplaceRolesDeleted(_, _, _)
\* ReplaceRoles writing "@deleted-role" for a role the guild does not have
ReplaceRolesDeleted(content, role_ids, roles) ==
    IF role_ids = <<>> THEN content
    ELSE LET role            == Head(role_ids)
             mention_pattern == <<"<", "@", "&">> \o to_string(role) \o <<">">>
             next == IF role \in DOMAIN roles
                     THEN Replace(content, mention_pattern, <<"@">> \o roles[role])
                     ELSE Replace(content, mention_pattern,
                                  <<"@", "d", "e", "l", "e", "t", "e", "d", "-",
                                    "r", "o", "l", "e">>)
         IN  ReplaceRolesDeleted(next, Tail(role_ids), roles)

RECURSIVE ReplaceRoles(_, _, _)
\* the loop over msg.mention_roles: "<@&id>" becomes "@name" for the roles the
\* guild has, roles being guild.roles
ReplaceRoles(content, role_ids, roles) ==
    IF role_ids = <<>> THEN content
    ELSE LET role            == Head(role_ids)
             mention_pattern == <<"<", "@", "&">> \o to_string(role) \o <<">">>
             next == IF role \in DOMAIN roles
                     THEN Replace(content, mention_pattern, <<"@">> \o roles[role])
                     ELSE content
         IN  ReplaceRoles(next, Tail(role_ids), roles)

\* format_discord_message without the test of the trimmed text
format_discord_message_unchecked(cache, msg) ==
    LET c1 == ReplaceUsers(msg.content, msg.mentions)
        c2 == ReplaceChannels(c1, msg.mention_channels)
        c3 == IF msg.guild_id # NoGuild /\ msg.guild_id \in DOMAIN cache
              THEN ReplaceRoles(c2, msg.mention_roles, cache[msg.guild_id])
              ELSE c2
        author_info == msg.author.display_name \o DiscordLabel
        formatted == IF Trim(c3) = <<>> THEN author_info
                     ELSE author_info \o <<" ">> \o Trim(c3)
    IN  [ok |-> TRUE, val |-> formatted]

\* format_discord_message: [ok |-> FALSE] is Err("no content found!"),
\* cache being ctx.cache (guild id -> role id -> role name)
format_discord_message(cache, msg) ==
    IF Trim(msg.content) = <<>> THEN [ok |-> FALSE, val |-> <<>>]
    ELSE LET c1 == ReplaceUsers(msg.content, msg.mentions)
             c2 == ReplaceChannels(c1, msg.mention_channels)
             c3 == IF msg.guild_id # NoGuild /\ msg.guild_id \in DOMAIN cache
                   THEN ReplaceRoles(c2, msg.mention_roles, cache[msg.guild_id])
                   ELSE c2
             author_info == msg.author.display_name \o DiscordLabel
             formatted == IF Trim(c3) = <<>> THEN author_info
                          ELSE author_info \o <<" ">> \o Trim(c3)
         IN  [ok |-> TRUE, val |-> formatted]

(***************************************************************************)
(* atrium_api types used by forward_message.                               *)
(***************************************************************************)
Lower == {"a", "b", "c", "d", "i", "l", "p", "x"}
IdChar == Lower \cup {"0", "1", "2", "3", "4", "5", "6", "7", "8", "9",
                      "A", ".", "_", "-"}

\* IsValidDid with the destination taken as it is, without a parse
IsValidDidUnchecked(s) == Len(s) >= 0

\* streamer_did.parse::<Did>() succeeds: ^did:[a-z]+:[a-zA-Z0-9._:%-]*[a-zA-Z0-9._-]$
IsValidDid(s) ==
    /\ StartsWith(s, <<"d", "i", "d", ":">>)
    /\ \E k \in 6..(Len(s) - 1) :
          /\ s[k] = ":"
          /\ \A j \in 5..(k - 1) : s[j] \in Lower
          /\ \A j \in (k + 1)..Len(s) : s[j] \in IdChar \cup {":", "%"}
          /\ s[Len(s)] \in IdChar

\* the collection every record is created in
Collection == "place.stream.chat.message"

\* lex::place::stream::chat::message::RecordData (created_at, the wall clock
\* at construction, carries no information the model uses and is left out)
RecordData(message_text, streamer_did) ==
    [text |-> message_text, streamer |-> streamer_did,
     facets |-> "None", reply |-> "None"]

\* InputData with validate: Some(true)
InputDataValidated(session, chat_message) ==
    [repo |-> session.did, collection |-> Collection, record |-> chat_message,
     rkey |-> "None", validate |-> TRUE, swap_commit |-> "None"]

\* com::atproto::repo::create_record::InputData
InputData(session, chat_message) ==
    [repo |-> session.did, collection |-> Collection, record |-> chat_message,
     rkey |-> "None", validate |-> FALSE, swap_commit |-> "None"]

(***************************************************************************)
(* The inputs of a run.                                                    *)
(***************************************************************************)
\* "did:plc:a", a well-formed DID
DidA == <<"d", "i", "d", ":", "p", "l", "c", ":", "a">>

\* session.did of the bridge's own account (setup_atp_sess logs it in)
BridgeDid == <<"d", "i", "d", ":", "p", "l", "c", ":", "b">>

\* values of CHANNEL_MAPPINGS the process may be started with: unset,
\* "1=did:plc:a,2=x" and " 1 = did:plc:a ,5,2=x=y,2=x"
EnvChoices ==
    { NoEnv,
      EnvSet(<<"1", "=">> \o DidA \o <<",", "2", "=", "x">>),
      EnvSet(<<" ", "1", " ", "=", " ">> \o DidA \o
          <<" ", ",", "5", ",", "2", "=", "x", "=", "y", ",", "2", "=", "x">>) }

\* ctx.cache: the guilds the gateway has cached, with their roles
GuildCache == [g \in {9} |-> [r \in {3} |-> <<"m", "o", "d">>]]

\* msg.author of a person and of a bot account
Ana == [name |-> <<"a", "n", "a">>, display_name |-> <<"A", "n", "a">>, bot |-> FALSE]
Bot == [name |-> <<"b", "o", "t">>, display_name |-> <<"B", "o", "t">>, bot |-> TRUE]

\* author, msg.content and the mention list serenity parsed out of it: plain
\* text, a text that mentions user 7, a command, an attachment-only message,
\* blanks, and what a bot posts
Posts ==
    { [author |-> Ana, content |-> <<"h", "i">>, mentions |-> <<>>],
      [author |-> Ana, content |-> <<"<", "@", "7", ">", " ", "h", "i">>,
       mentions |-> <<[id |-> 7, display_name |-> <<"B", "o", "b">>]>>],
      [author |-> Ana, content |-> <<"~", "x">>, mentions |-> <<>>],
      [author |-> Ana, content |-> <<>>, mentions |-> <<>>],
      [author |-> Ana, content |-> <<" ", "\n">>, mentions |-> <<>>],
      [author |-> Bot, content |-> <<>>, mentions |-> <<>>] }

\* msg.channel_id of the messages delivered
ChannelIds == {1, 2, 5}

\* the Message events the gateway may deliver
Messages ==
    { [channel_id |-> c, author |-> p.author, content |-> p.content,
       mentions |-> p.mentions, mention_channels |-> <<>>,
       mention_roles |-> <<>>, guild_id |-> 9] :
        c \in ChannelIds, p \in Posts }

(***************************************************************************)
(* State.                                                                  *)
(***************************************************************************)
VARIABLES
    env,         \* the value of CHANNEL_MAPPINGS in the process environment
    session,     \* atp_client.get_session(): NoSession or the session
    pc,          \* per invocation: where the handler task is
    msg,         \* per invocation: the Message it was given
    caller,      \* per invocation: "handler" (Handler::message) or "direct"
    message_text,\* per invocation: the local message_text
    streamer_did,\* per invocation: the local streamer_did
    input,       \* per invocation: the create_record input built, if any
    calls,       \* per invocation: create_record calls made
    outcome,     \* per invocation: how it ended
    failsBefore, \* per invocation: failed submissions seen when it began
    store,       \* the records the remote repository has accepted, in order
    errlog,      \* the error! entries the handler has emitted
    query,       \* the last call of a directory function: which, on what key
    answer,      \* what that call returned
    fin,         \* the Message format_discord_message is called on as a unit
    fout         \* what that call returned

vars == <<fin, fout, query, answer, env, session, pc, msg, caller, message_text, streamer_did, input,
          calls, outcome, failsBefore, store, errlog>>

Invocations == 1..MaxInv

\* get_session() returns None
NoSession == [active |-> FALSE, did |-> <<>>]

\* get_session() returns Some(session) of the bridge's account
ActiveSession == [active |-> TRUE, did |-> BridgeDid]

\* no value yet (a local not assigned, an invocation not ended)
None == "none"

\* the outcomes that are Err(..) of forward_message
ErrKinds == {"EmptyContent", "ChannelNotMapped", "NoActiveSession",
             "InvalidDid", "SubmissionFailed"}

\* the outcomes that are Ok(()) of forward_message
OkKinds == {"skip", "skip_empty", "forwarded"}

\* msg of an invocation whose event has not arrived: no channel (a ChannelId
\* is never zero), no author, no text
NoMessage ==
    [channel_id |-> 0,
     author |-> [name |-> <<>>, display_name |-> <<>>, bot |-> FALSE],
     content |-> <<>>, mentions |-> <<>>, mention_channels |-> <<>>,
     mention_roles |-> <<>>, guild_id |-> NoGuild]

\* the process before the first event, the environment apart
InitProcess ==
    /\ fout = [called |-> FALSE, ok |-> FALSE, val |-> <<>>]
    /\ query = [op |-> "none", key |-> <<>>]
    /\ answer = [ok |-> FALSE, val |-> <<>>]
    /\ session = ActiveSession
    /\ pc = [i \in Invocations |-> "idle"]
    /\ msg = [i \in Invocations |-> NoMessage]
    /\ caller = [i \in Invocations |-> None]
    /\ message_text = [i \in Invocations |-> <<>>]
    /\ streamer_did = [i \in Invocations |-> <<>>]
    /\ input = [i \in Invocations |-> <<>>]
    /\ calls = [i \in Invocations |-> 0]
    /\ outcome = [i \in Invocations |-> None]
    /\ failsBefore = [i \in Invocations |-> 0]
    /\ store = <<>>
    /\ errlog = {}

Init == env \in EnvChoices /\ fin = None /\ InitProcess

(***************************************************************************)
(* forward_message, cut at its await points.                               *)
(***************************************************************************)
\* ForwardGuards with the formatter's error defaulted to "" and no test of
\* the text before it is sent
ForwardGuardsNoEmptyTest(e, m) ==
    IF m.author.bot \/ StartsWith(m.content, <<"~">>)
    THEN [kind |-> "skip", text |-> <<>>, did |-> <<>>]
    ELSE LET f == format_discord_message(GuildCache, m)
             d == get_streamer_for_channel(e, to_string(m.channel_id))
         IN  IF ~d.ok
             THEN [kind |-> "ChannelNotMapped", text |-> <<>>, did |-> <<>>]
             ELSE [kind |-> "get_session", text |-> f.val, did |-> d.val]

\* ForwardGuards with the skip test written with && for ||
ForwardGuardsAndSkip(e, m) ==
    IF m.author.bot /\ StartsWith(m.content, <<"~">>)
    THEN [kind |-> "skip", text |-> <<>>, did |-> <<>>]
    ELSE LET f == format_discord_message(GuildCache, m)
         IN  IF ~f.ok
             THEN [kind |-> "EmptyContent", text |-> <<>>, did |-> <<>>]
             ELSE IF Trim(f.val) = <<>>
             THEN [kind |-> "skip_empty", text |-> <<>>, did |-> <<>>]
             ELSE LET d == get_streamer_for_channel(e, to_string(m.channel_id))
                  IN  IF ~d.ok
                      THEN [kind |-> "ChannelNotMapped", text |-> <<>>, did |-> <<>>]
                      ELSE [kind |-> "get_session", text |-> f.val, did |-> d.val]

\* fwd.rs 38-77, up to the get_session().await: the outcome it ends with, or
\* "get_session" with the locals message_text and streamer_did
ForwardGuards(e, m) ==
    IF m.author.bot \/ StartsWith(m.content, <<"~">>)
    THEN [kind |-> "skip", text |-> <<>>, did |-> <<>>]
    ELSE LET f == format_discord_message(GuildCache, m)
         IN  IF ~f.ok
             THEN [kind |-> "EmptyContent", text |-> <<>>, did |-> <<>>]
             ELSE IF Trim(f.val) = <<>>
             THEN [kind |-> "skip_empty", text |-> <<>>, did |-> <<>>]
             ELSE LET d == get_streamer_for_channel(e, to_string(m.channel_id))
                  IN  IF ~d.ok
                      THEN [kind |-> "ChannelNotMapped", text |-> <<>>, did |-> <<>>]
                      ELSE [kind |-> "get_session", text |-> f.val, did |-> d.val]

\* BuildInput with a default session taken when none is active
BuildInputDefaultSession(sess, text, did) ==
    IF ~IsValidDid(did)
    THEN [kind |-> "InvalidDid", input |-> <<>>]
    ELSE [kind |-> "create_record",
          input |-> <<InputData(sess, RecordData(text, did))>>]

\* fwd.rs 77-126, from the session to the create_record call: the outcome it
\* ends with, or "create_record" with the input submitted
BuildInput(sess, text, did) ==
    IF ~sess.active
    THEN [kind |-> "NoActiveSession", input |-> <<>>]
    ELSE IF ~IsValidDid(did)
    THEN [kind |-> "InvalidDid", input |-> <<>>]
    ELSE [kind |-> "create_record",
          input |-> <<InputData(sess, RecordData(text, did))>>]

\* main.rs 44-51: the error! entry of the handler for an Err of forward_message
ErrorEntry(i, kind) ==
    [inv |-> i, error |-> kind, channel_id |-> msg[i].channel_id,
     author |-> msg[i].author.name]

\* Finish with the handler unwrapping the result: an Err ends the process and
\* with it every other handler task
FinishUnwrap(i, kind) ==
    /\ pc' = IF kind \in ErrKinds THEN [j \in Invocations |-> "done"]
             ELSE [pc EXCEPT ![i] = "done"]
    /\ outcome' = [outcome EXCEPT ![i] = kind]
    /\ errlog' = errlog

\* invocation i ends with outcome kind; the handler logs an Err and returns
Finish(i, kind) ==
    /\ pc' = [pc EXCEPT ![i] = "done"]
    /\ outcome' = [outcome EXCEPT ![i] = kind]
    /\ errlog' = IF caller[i] = "handler" /\ kind \in ErrKinds
                 THEN errlog \cup {ErrorEntry(i, kind)}
                 ELSE errlog

\* the SubmissionFailed outcomes so far
FailedSubmissions == {j \in Invocations : outcome[j] = "SubmissionFailed"}

\* the gateway delivers events in order; their handler tasks run concurrently
NextToDeliver(i) ==
    pc[i] = "idle" /\ (IF i = 1 THEN TRUE ELSE pc[i - 1] # "idle")

\* Message without the should_forward_channel test: every event goes on to
\* forward_message
MessageNoGate(i, m) ==
    /\ NextToDeliver(i)
    /\ msg' = [msg EXCEPT ![i] = m]
    /\ caller' = [caller EXCEPT ![i] = "handler"]
    /\ failsBefore' = [failsBefore EXCEPT ![i] = Cardinality(FailedSubmissions)]
    /\ pc' = [pc EXCEPT ![i] = "forward_message"]
    /\ UNCHANGED <<fin, fout, query, answer, env, session, message_text, streamer_did, input, calls,
                   outcome, store, errlog>>

\* Handler::message, main.rs 36-41: a message event arrives; the handler
\* returns at once unless should_forward_channel, else awaits ctx.data.read()
Message(i, m) ==
    /\ NextToDeliver(i)
    /\ msg' = [msg EXCEPT ![i] = m]
    /\ caller' = [caller EXCEPT ![i] = "handler"]
    /\ failsBefore' = [failsBefore EXCEPT ![i] = Cardinality(FailedSubmissions)]
    /\ IF should_forward_channel(env, to_string(m.channel_id))
       THEN /\ pc' = [pc EXCEPT ![i] = "forward_message"]
            /\ UNCHANGED outcome
       ELSE /\ pc' = [pc EXCEPT ![i] = "done"]
            /\ outcome' = [outcome EXCEPT ![i] = "not_forwarded"]
    /\ UNCHANGED <<fin, fout, query, answer, env, session, message_text, streamer_did, input, calls,
                   store, errlog>>

\* forward_message called on its own (it is pub), without the handler's check
Call(i, m) ==
    /\ NextToDeliver(i)
    /\ msg' = [msg EXCEPT ![i] = m]
    /\ caller' = [caller EXCEPT ![i] = "direct"]
    /\ failsBefore' = [failsBefore EXCEPT ![i] = Cardinality(FailedSubmissions)]
    /\ pc' = [pc EXCEPT ![i] = "forward_message"]
    /\ UNCHANGED <<fin, fout, query, answer, env, session, message_text, streamer_did, input, calls,
                   outcome, store, errlog>>

\* main.rs 41-44 and fwd.rs 19-77: forward_message runs to get_session().await
ForwardMessage(i) ==
    /\ pc[i] = "forward_message"
    /\ LET r == ForwardGuards(env, msg[i])
       IN  IF r.kind = "get_session"
           THEN /\ pc' = [pc EXCEPT ![i] = "get_session"]
                /\ message_text' = [message_text EXCEPT ![i] = r.text]
                /\ streamer_did' = [streamer_did EXCEPT ![i] = r.did]
                /\ UNCHANGED <<outcome, errlog>>
           ELSE /\ Finish(i, r.kind)
                /\ UNCHANGED <<message_text, streamer_did>>
    /\ UNCHANGED <<fin, fout, query, answer, env, session, msg, caller, input, calls, failsBefore, store>>

\* GetSession with the create_record call spawned as a task of its own and
\* not awaited: forward_message returns Ok(()) while the call is in flight
GetSessionDetached(i) ==
    /\ pc[i] = "get_session"
    /\ LET r == BuildInput(session, message_text[i], streamer_did[i])
       IN  IF r.kind = "create_record"
           THEN /\ input' = [input EXCEPT ![i] = r.input]
                /\ calls' = [calls EXCEPT ![i] = @ + 1]
                /\ Finish(i, "forwarded")
           ELSE /\ Finish(i, r.kind)
                /\ UNCHANGED <<input, calls>>
    /\ UNCHANGED <<fin, fout, query, answer, env, session, msg, caller, message_text, streamer_did,
                   failsBefore, store>>

\* fwd.rs 77-126: get_session() returns; the record is built and create_record
\* is called, or the invocation ends without a call
GetSession(i) ==
    /\ pc[i] = "get_session"
    /\ LET r == BuildInput(session, message_text[i], streamer_did[i])
       IN  IF r.kind = "create_record"
           THEN /\ pc' = [pc EXCEPT ![i] = "create_record"]
                /\ input' = [input EXCEPT ![i] = r.input]
                /\ calls' = [calls EXCEPT ![i] = @ + 1]
                /\ UNCHANGED <<outcome, errlog>>
           ELSE /\ Finish(i, r.kind)
                /\ UNCHANGED <<input, calls>>
    /\ UNCHANGED <<fin, fout, query, answer, env, session, msg, caller, message_text, streamer_did,
                   failsBefore, store>>

\* CreateRecord with the call made again after an error
CreateRecordRetry(i, ok) ==
    /\ pc[i] = "create_record"
    /\ IF ok
       THEN /\ store' = Append(store, [inv |-> i, input |-> input[i][1]])
            /\ Finish(i, "forwarded")
            /\ UNCHANGED calls
       ELSE /\ calls' = [calls EXCEPT ![i] = @ + 1]
            /\ UNCHANGED <<store, pc, outcome, errlog>>
    /\ UNCHANGED <<fin, fout, query, answer, env, session, msg, caller, message_text, streamer_did,
                   input, failsBefore>>

\* CreateRecord with the input kept in one buffer shared by the handler
\* tasks: what is stored is the input of the first task that has built one
CreateRecordShared(i, ok) ==
    /\ pc[i] = "create_record"
    /\ store' = IF ok
                THEN Append(store,
                       [inv |-> i,
                        input |-> input[CHOOSE j \in Invocations :
                                          /\ input[j] # <<>>
                                          /\ \A k \in 1..(j - 1) : input[k] = <<>>][1]])
                ELSE store
    /\ Finish(i, IF ok THEN "forwarded" ELSE "SubmissionFailed")
    /\ UNCHANGED <<fin, fout, query, answer, env, session, msg, caller, message_text, streamer_did,
                   input, failsBefore, calls>>

\* fwd.rs 109-148: create_record returns, ok with the record stored by the
\* repository, or with a transport or validation error and nothing stored
CreateRecord(i, ok) ==
    /\ pc[i] = "create_record"
    /\ store' = IF ok THEN Append(store, [inv |-> i, input |-> input[i][1]]) ELSE store
    /\ Finish(i, IF ok THEN "forwarded" ELSE "SubmissionFailed")
    /\ UNCHANGED <<fin, fout, query, answer, env, session, msg, caller, message_text, streamer_did,
                   input, failsBefore, calls>>

(***************************************************************************)
(* The session's own lifecycle (atrium's agent: expiry, refresh).          *)
(***************************************************************************)
\* the stored session is cleared (a refresh failed)
SessionExpire ==
    /\ session.active
    /\ session' = NoSession
    /\ UNCHANGED <<fin, fout, query, answer, env, pc, msg, caller, message_text, streamer_did, input,
                   calls, outcome, failsBefore, store, errlog>>

\* a session is active again
SessionResume ==
    /\ ~session.active
    /\ session' = ActiveSession
    /\ UNCHANGED <<fin, fout, query, answer, env, pc, msg, caller, message_text, streamer_did, input,
                   calls, outcome, failsBefore, store, errlog>>

(***************************************************************************)
(* Specifications.                                                         *)
(***************************************************************************)
\* the bot: every message event goes through Handler::message
Next ==
    \/ \E i \in Invocations, m \in Messages : Message(i, m)
    \/ \E i \in Invocations : ForwardMessage(i)
    \/ \E i \in Invocations : GetSession(i)
    \/ \E i \in Invocations, ok \in BOOLEAN : CreateRecord(i, ok)
    \/ SessionExpire
    \/ SessionResume

Spec == Init /\ [][Next]_vars

\* the handler task of invocation i, once past the gate and not yet returned,
\* takes its next step: forward_message runs on, get_session() returns, or
\* create_record() returns
TaskStep(i) ==
    /\ pc[i] \in {"forward_message", "get_session", "create_record"}
    /\ \E p \in {"get_session", "create_record", "done"} :
          p # pc[i] /\ pc' = [pc EXCEPT ![i] = p]

\* the handler tasks are scheduled and the calls they await return: a task
\* that is mid-way does take its next step
Fairness == \A i \in Invocations : WF_pc(TaskStep(i))

SpecLive == Spec /\ Fairness

\* forward_message as a unit: called on any message, mapped channel or not
NextFwd ==
    \/ \E i \in Invocations, m \in Messages : Call(i, m)
    \/ \E i \in Invocations : ForwardMessage(i)
    \/ \E i \in Invocations : GetSession(i)
    \/ \E i \in Invocations, ok \in BOOLEAN : CreateRecord(i, ok)
    \/ SessionExpire
    \/ SessionResume

SpecFwd == Init /\ [][NextFwd]_vars

(***************************************************************************)
(* The directory functions as units, over every short mapping string.      *)
(***************************************************************************)
\* the characters of the mapping strings enumerated
MapAlphabet == {"a", "x", "=", ",", " "}

\* CHANNEL_MAPPINGS is unset, or any string of at most MaxMapLen characters
IsDirEnv(e) ==
    \/ e = NoEnv
    \/ \E n \in 0..MaxMapLen : \E s \in [1..n -> MapAlphabet] : e = EnvSet(s)

\* the channel ids looked up
DirKeys == {<<"a">>, <<"x">>}

\* get_streamer_for_channel(k) is called
Resolve(k) ==
    /\ query' = [op |-> "get_streamer_for_channel", key |-> k]
    /\ answer' = get_streamer_for_channel(env, k)
    /\ UNCHANGED <<fin, fout, env, session, pc, msg, caller, message_text, streamer_did,
                   input, calls, outcome, failsBefore, store, errlog>>

\* should_forward_channel(k) is called
ShouldForward(k) ==
    /\ query' = [op |-> "should_forward_channel", key |-> k]
    /\ answer' = [ok |-> should_forward_channel(env, k), val |-> <<>>]
    /\ UNCHANGED <<fin, fout, env, session, pc, msg, caller, message_text, streamer_did,
                   input, calls, outcome, failsBefore, store, errlog>>

InitDir == IsDirEnv(env) /\ fin = None /\ InitProcess

NextDir ==
    \/ \E k \in DirKeys : Resolve(k)
    \/ \E k \in DirKeys : ShouldForward(k)

SpecDir == InitDir /\ [][NextDir]_vars

(***************************************************************************)
(* format_discord_message as a unit, over short texts built of mention     *)
(* tokens and loose characters, with every mention list.                   *)
(***************************************************************************)
\* at most this many pieces in a text
MaxPieces == 3

\* what a text is put together from: the tokens of users 1 and 2, of channel
\* 5, of roles 3 and 4, and single characters
Pieces ==
    { <<"<", "@", "1", ">">>, <<"<", "@", "2", ">">>, <<"<", "#", "5", ">">>,
      <<"<", "@", "&", "3", ">">>, <<"<", "@", "&", "4", ">">>,
      <<"<">>, <<">">>, <<" ">>, <<"h">> }

RECURSIVE Flatten(_)
\* the pieces one after the other
Flatten(ps) == IF ps = <<>> THEN <<>> ELSE Head(ps) \o Flatten(Tail(ps))

\* the users a message may mention, with their display names
User1 == [id |-> 1, display_name |-> <<"2">>]
User2 == [id |-> 2, display_name |-> <<"B", "o", "b">>]

\* msg.mentions, in the order the gateway lists them
UserLists == {<<>>, <<User1>>, <<User1, User2>>, <<User2, User1>>}

\* msg.mention_channels
ChannelLists == {<<>>, <<[id |-> 5, name |-> <<"c">>]>>}

\* msg.mention_roles with msg.guild_id: role 3 of the cached guild 9, the
\* same outside a guild and in a guild the cache does not hold, and role 4,
\* which guild 9 does not have
RoleGuilds ==
    { [roles |-> <<>>, guild |-> 9],
      [roles |-> <<3>>, guild |-> 9],
      [roles |-> <<3>>, guild |-> NoGuild],
      [roles |-> <<3>>, guild |-> 8],
      [roles |-> <<4, 3>>, guild |-> 9] }

\* author Ana, text "<@123> hi", user 123 displayed as Bob
ExampleMsg ==
    [channel_id |-> 1, author |-> Ana,
     content |-> <<"<", "@", "1", "2", "3", ">", " ", "h", "i">>,
     mentions |-> <<[id |-> 123, display_name |-> <<"B", "o", "b">>]>>,
     mention_channels |-> <<>>, mention_roles |-> <<>>, guild_id |-> 9]

\* m is a Message the formatter is called on
IsFmtInput(m) ==
    \/ m = ExampleMsg
    \/ \E n \in 0..MaxPieces : \E ps \in [1..n -> Pieces] :
          \E us \in UserLists, cs \in ChannelLists, rg \in RoleGuilds :
              m = [channel_id |-> 1, author |-> Ana, content |-> Flatten(ps),
                   mentions |-> us, mention_channels |-> cs,
                   mention_roles |-> rg.roles, guild_id |-> rg.guild]

\* format_discord_message(ctx, msg) is called and returns
Format ==
    /\ LET r == format_discord_message(GuildCache, fin)
       IN  fout' = [called |-> TRUE, ok |-> r.ok, val |-> r.val]
    /\ UNCHANGED <<fin, query, answer, env, session, pc, msg, caller,
                   message_text, streamer_did, input, calls, outcome,
                   failsBefore, store, errlog>>

InitFmt == env = NoEnv /\ IsFmtInput(fin) /\ InitProcess

NextFmt == Format

SpecFmt == InitFmt /\ [][NextFmt]_vars

(***************************************************************************)
(* Properties.                                                             *)
(***************************************************************************)
\* the directory each mapping string of EnvChoices parses to
DirectoryOf == [e \in EnvChoices |-> get_channel_mappings(e)]

\* the records of invocation i that the repository accepted
Stored(i) == {k \in DOMAIN store : store[k].inv = i}

\* m is stopped by the first guard of forward_message
IsSkipped(m) == m.author.bot \/ StartsWith(m.content, <<"~">>)

\* C1: an invocation of forward_message makes at most one create_record call
\* and never repeats one; one that ended as forwarded made exactly one call
\* and has exactly one record stored; one that ended with an error or a skip
\* has no record stored, and made a call only if it ended SubmissionFailed.
C1_AtMostOneSubmission ==
    \A i \in Invocations :
        /\ calls[i] <= 1
        /\ Cardinality(Stored(i)) <= calls[i]
        /\ outcome[i] = "forwarded" =>
               calls[i] = 1 /\ Cardinality(Stored(i)) = 1
        /\ outcome[i] \in ErrKinds \cup {"skip", "skip_empty"} =>
               /\ Stored(i) = {}
               /\ calls[i] = (IF outcome[i] = "SubmissionFailed" THEN 1 ELSE 0)

\* C1 witness: one invocation was forwarded by its single call and another
\* lost its single call to an error
C1_Witness ==
    \E i, j \in Invocations :
        /\ outcome[i] = "forwarded" /\ calls[i] = 1
        /\ outcome[j] = "SubmissionFailed" /\ calls[j] = 1 /\ Stored(j) = {}

\* the state of invocation j
Task(j) == <<pc[j], msg[j], caller[j], message_text[j], streamer_did[j],
             input[j], calls[j], outcome[j], failsBefore[j]>>

\* the state of invocation j after the step
TaskNext(j) == <<pc'[j], msg'[j], caller'[j], message_text'[j],
                 streamer_did'[j], input'[j], calls'[j], outcome'[j],
                 failsBefore'[j]>>

\* C2: a step in which an invocation ends with an error (SubmissionFailed
\* among them) adds that invocation's entry to the handler's log and changes
\* nothing else: the session, the directory, the stored records and every
\* other invocation, started or still to come, are as they were.
C2_FailureIsolation ==
    [][\A i \in Invocations :
          (outcome[i] = None /\ outcome'[i] \in ErrKinds) =>
              /\ session' = session /\ env' = env /\ store' = store
              /\ errlog' = errlog \cup {ErrorEntry(i, outcome'[i])}
              /\ \A j \in Invocations \ {i} : TaskNext(j) = Task(j)]_vars

\* C2 witness: a message that arrived after a submission had failed was
\* forwarded
C2_Witness ==
    \E i, j \in Invocations :
        /\ outcome[i] = "SubmissionFailed"
        /\ failsBefore[j] > 0 /\ outcome[j] = "forwarded"
        /\ Stored(j) # {}

\* C3: a message of a bot, or one whose text begins with "~", never gets
\* past the first guard: its invocation ends as a skip (Ok), with no session
\* acquired, no create_record call and no record stored.
C3_SkipBotOrCommand ==
    \A i \in Invocations :
        (pc[i] # "idle" /\ IsSkipped(msg[i])) =>
            /\ pc[i] \in {"forward_message", "done"}
            /\ pc[i] = "done" => outcome[i] = "skip"
            /\ calls[i] = 0 /\ Stored(i) = {}
            /\ \A e \in errlog : e.inv # i

\* C3 witness: skips ended with the session gone, one a bot's message with
\* no text on an unmapped channel, one a person's command
C3_Witness ==
    /\ ~session.active
    /\ \E i, j \in Invocations :
          /\ outcome[i] = "skip" /\ msg[i].author.bot
          /\ msg[i].content = <<>> /\ msg[i].channel_id = 5
          /\ outcome[j] = "skip" /\ ~msg[j].author.bot

\* the raw text of m is empty or only whitespace
IsBlank(m) == Trim(m.content) = <<>>

\* C4 (as claimed): a message that passes the first guard and whose text is
\* empty or blank ends forward_message with Ok (a skip), with no
\* create_record call and nothing logged by the handler.
C4_EmptyContentIsSkip ==
    \A i \in Invocations :
        (pc[i] = "done" /\ outcome[i] # "not_forwarded"
            /\ ~IsSkipped(msg[i]) /\ IsBlank(msg[i])) =>
            /\ outcome[i] \in OkKinds
            /\ calls[i] = 0
            /\ \A e \in errlog : e.inv # i

\* C5: every record the repository accepted, and every record in flight,
\* has a text that is non-empty after trimming; a message whose text is
\* empty or blank never causes a create_record call.
C5_SubmittedTextNonEmpty ==
    /\ \A k \in DOMAIN store : Trim(store[k].input.record.text) # <<>>
    /\ \A i \in Invocations :
          /\ input[i] # <<>> => Trim(input[i][1].record.text) # <<>>
          /\ (pc[i] # "idle" /\ IsBlank(msg[i])) =>
                 calls[i] = 0 /\ input[i] = <<>> /\ Stored(i) = {}

\* C5 witness: a record was accepted, and a person's blank message on a
\* mapped channel ended without a call
C5_Witness ==
    /\ store # <<>>
    /\ \E i \in Invocations :
          /\ pc[i] = "done" /\ outcome[i] # "not_forwarded"
          /\ ~IsSkipped(msg[i]) /\ IsBlank(msg[i]) /\ msg[i].content # <<>>
          /\ calls[i] = 0

\* C6: a message that passes the skip and empty-text guards and whose
\* channel id has no entry in the directory ends forward_message with the
\* ChannelNotMapped error; the session is never asked for, no record is
\* built and no create_record call is made.
C6_ChannelNotMapped ==
    \A d \in {DirectoryOf[env]} : \A i \in Invocations :
        (pc[i] # "idle" /\ ~IsSkipped(msg[i]) /\ ~IsBlank(msg[i])
            /\ to_string(msg[i].channel_id) \notin DOMAIN d) =>
            /\ pc[i] \in {"forward_message", "done"}
            /\ pc[i] = "done" => outcome[i] = "ChannelNotMapped"
            /\ calls[i] = 0 /\ input[i] = <<>> /\ Stored(i) = {}

\* C6 witness: forward_message ended ChannelNotMapped for channel 5 under a
\* directory that has entries, while a session was active
C6_Witness ==
    \E i \in Invocations :
        /\ outcome[i] = "ChannelNotMapped" /\ msg[i].channel_id = 5
        /\ env.set /\ session.active /\ calls[i] = 0

\* C7: the handler's error log never holds an entry for ChannelNotMapped nor
\* for a message of a channel without a mapping; every invocation that
\* ended NoActiveSession or SubmissionFailed has its entry there, with the
\* message's channel id and author name.
C7_UnmappedNeverLoggedAsError ==
    /\ \A d \in {DirectoryOf[env]} : \A e \in errlog :
          /\ e.error # "ChannelNotMapped"
          /\ to_string(e.channel_id) \in DOMAIN d
    /\ \A i \in Invocations :
          outcome[i] \in {"NoActiveSession", "SubmissionFailed"} =>
              [inv |-> i, error |-> outcome[i],
               channel_id |-> msg[i].channel_id,
               author |-> msg[i].author.name] \in errlog

\* C7 witness: a person's message on an unmapped channel was handled and
\* left no entry, and a NoActiveSession failure was logged
C7_Witness ==
    \E i, j \in Invocations :
        /\ pc[i] = "done" /\ msg[i].channel_id = 5
        /\ ~IsSkipped(msg[i]) /\ ~IsBlank(msg[i])
        /\ \A e \in errlog : e.inv # i
        /\ outcome[j] = "NoActiveSession"
        /\ \E e \in errlog : e.inv = j /\ e.author = msg[j].author.name

\* C8: when get_session returns with no session active the invocation ends
\* NoActiveSession without a record or a call; and an invocation that ended
\* NoActiveSession is over for good: no step changes it, it holds no record
\* and none of its records is ever stored, whatever the session does later.
C8_NoActiveSessionDrops ==
    [][\A i \in Invocations :
          /\ (pc[i] = "get_session" /\ ~session.active /\ pc'[i] # "get_session") =>
                 /\ outcome'[i] = "NoActiveSession"
                 /\ calls'[i] = 0 /\ input'[i] = <<>> /\ store' = store
          /\ outcome[i] = "NoActiveSession" =>
                 /\ TaskNext(i) = Task(i)
                 /\ pc[i] = "done" /\ calls[i] = 0 /\ input[i] = <<>>
                 /\ \A k \in DOMAIN store' : store'[k].inv # i]_vars

\* C8 witness: an invocation ended NoActiveSession, the session is active
\* again, and a later message has been forwarded
C8_Witness ==
    \E i, j \in Invocations :
        /\ i < j /\ outcome[i] = "NoActiveSession" /\ session.active
        /\ outcome[j] = "forwarded" /\ Stored(i) = {}

\* invocation i has read its streamer_did from the directory
HasResolved(i) ==
    \/ pc[i] \in {"get_session", "create_record"}
    \/ outcome[i] \in {"NoActiveSession", "InvalidDid", "SubmissionFailed",
                       "forwarded"}

\* C9: the directory never changes during a run: no step changes the
\* mapping string, and at every point of the run the directory's entry for
\* a handled message's channel is what each earlier lookup returned: the
\* handler passed the message on exactly if the entry exists, forward_message
\* never ends ChannelNotMapped for a message the handler passed on, and the
\* streamer_did an invocation read is the entry, the same for every
\* invocation on that channel.
C9_DirectoryImmutable ==
    [][\A d \in {get_channel_mappings(env')} :
           /\ env' = env
           /\ \A i \in Invocations :
                 pc'[i] # "idle" =>
                     LET ch == to_string(msg'[i].channel_id)
                     IN  /\ (outcome'[i] = "not_forwarded") <=> (ch \notin DOMAIN d)
                         /\ outcome'[i] # "ChannelNotMapped"
                         /\ HasResolved(i)' =>
                                ch \in DOMAIN d /\ streamer_did'[i] = d[ch]
           /\ \A i, j \in Invocations :
                 (HasResolved(i)' /\ HasResolved(j)'
                     /\ msg'[i].channel_id = msg'[j].channel_id) =>
                     streamer_did'[i] = streamer_did'[j]]_vars

\* C9 witness: under the mapping string with blanks and a malformed pair,
\* two messages of channel 1, the second arriving after the first had been
\* forwarded, resolved to the same DID
C9_Witness ==
    \E i, j \in Invocations :
        /\ i < j /\ outcome[i] = "forwarded" /\ pc[j] = "create_record"
        /\ msg[i].channel_id = 1 /\ msg[j].channel_id = 1
        /\ env.set /\ Head(env.val) = " "
        /\ streamer_did[i] = DidA /\ streamer_did[j] = DidA

\* the positions of the character c in s
Positions(s, c) == {p \in 1..Len(s) : s[p] = c}

\* where the comma-separated fields of s begin
FieldStarts(s) == {1} \cup {p + 1 : p \in Positions(s, ",")}

\* the field of s that begins at st
FieldAt(s, st) ==
    LET ends == {p \in Positions(s, ",") : p >= st} \cup {Len(s) + 1}
        e    == CHOOSE p \in ends : \A q \in ends : p <= q
    IN  SubSeq(s, st, e - 1)

\* the field f has exactly two "="-separated parts
IsPair(f) == Cardinality(Positions(f, "=")) = 1

\* the key and the value of a pair, trimmed
PairKey(f) == Trim(SubSeq(f, 1, (CHOOSE p \in Positions(f, "=") : TRUE) - 1))
PairVal(f) == Trim(SubSeq(f, (CHOOSE p \in Positions(f, "=") : TRUE) + 1, Len(f)))

\* where the pairs of s with key k begin
PairsFor(s, k) ==
    {st \in FieldStarts(s) : IsPair(FieldAt(s, st)) /\ PairKey(FieldAt(s, st)) = k}

\* C10 (as claimed): resolve(k) returns v exactly when a pair k=v with
\* exactly two fields is present in the mapping string, NotFound otherwise.
C10_ResolveExactlyWhenPairPresent ==
    (query.op = "get_streamer_for_channel" /\ env.set) =>
        LET here == PairsFor(env.val, query.key)
        IN  /\ answer.ok => \E st \in here : PairVal(FieldAt(env.val, st)) = answer.val
            /\ \A st \in here :
                  answer.ok /\ answer.val = PairVal(FieldAt(env.val, st))

\* C10 (amended): resolve(k) returns the trimmed value of the last pair of
\* the mapping string that has exactly two "="-separated fields and whose
\* trimmed key is k, and NotFound when there is no such pair or the variable
\* is unset; fields that are not pairs change nothing.
C10_ResolveLastPair ==
    query.op = "get_streamer_for_channel" =>
        LET here == IF env.set THEN PairsFor(env.val, query.key) ELSE {}
        IN  IF here = {} THEN ~answer.ok
            ELSE LET last == CHOOSE st \in here : \A o \in here : o <= st
                 IN  answer.ok /\ answer.val = PairVal(FieldAt(env.val, last))

\* C10 witness: a key was resolved to a non-empty value from a string that
\* also holds a field that is not a pair
C10_Witness ==
    /\ query.op = "get_streamer_for_channel" /\ env.set
    /\ answer.ok /\ answer.val # <<>>
    /\ \E st \in FieldStarts(env.val) :
          ~IsPair(FieldAt(env.val, st)) /\ FieldAt(env.val, st) # <<>>

\* C11: when CHANNEL_MAPPINGS is not set the process still runs and the
\* directory is empty: should_forward_channel is false for every channel id,
\* every message handled ends in the handler without forward_message being
\* called, nothing is submitted and nothing is logged as an error.
C11_AbsentMappingDisablesForwarding ==
    ~env.set =>
        /\ \A c \in ChannelIds : ~should_forward_channel(env, to_string(c))
        /\ \A i \in Invocations :
              /\ pc[i] \in {"idle", "done"}
              /\ pc[i] = "done" => outcome[i] = "not_forwarded"
              /\ calls[i] = 0 /\ input[i] = <<>>
        /\ store = <<>> /\ errlog = {}

\* C11 witness: with the variable unset every event of the run was handled,
\* a person's text on channel 1 among them
C11_Witness ==
    /\ ~env.set
    /\ \A i \in Invocations : pc[i] = "done"
    /\ \E i \in Invocations :
          msg[i].channel_id = 1 /\ ~IsSkipped(msg[i]) /\ ~IsBlank(msg[i])

\* pat occurs in s
Contains(s, pat) ==
    \E k \in 1..(Len(s) - Len(pat) + 1) : SubSeq(s, k, k + Len(pat) - 1) = pat

\* the tokens Discord writes a mention as in the raw text
UserToken(id) == <<"<", "@">> \o to_string(id) \o <<">">>
ChannelToken(id) == <<"<", "#">> \o to_string(id) \o <<">">>
RoleToken(id) == <<"<", "@", "&">> \o to_string(id) \o <<">">>

\* the index set of a sequence
Indices(s) == 1..Len(s)

\* C12: after format_discord_message the output holds no occurrence of the
\* token "<@id>" of any user listed in msg.mentions, nor of the token "<#id>"
\* of any channel listed in msg.mention_channels, for any text, display names
\* and list order.
C12_NoMentionTokenLeft ==
    (fout.called /\ fout.ok) =>
        /\ \A k \in Indices(fin.mentions) :
              ~Contains(fout.val, UserToken(fin.mentions[k].id))
        /\ \A k \in Indices(fin.mention_channels) :
              ~Contains(fout.val, ChannelToken(fin.mention_channels[k].id))

RECURSIVE Substituted(_, _, _, _)
\* s from position k on, with rep written for every occurrence of pat met
\* going left to right, an occurrence being skipped over once it is replaced
Substituted(s, pat, rep, k) ==
    IF k > Len(s) THEN <<>>
    ELSE IF k + Len(pat) - 1 <= Len(s) /\ SubSeq(s, k, k + Len(pat) - 1) = pat
         THEN rep \o Substituted(s, pat, rep, k + Len(pat))
         ELSE <<s[k]>> \o Substituted(s, pat, rep, k + 1)

RECURSIVE AfterUsers(_, _)
\* the text of m after the first n listed users were substituted, one user at
\* a time in list order, each over the text the earlier ones left
AfterUsers(m, n) ==
    IF n = 0 THEN m.content
    ELSE Substituted(AfterUsers(m, n - 1), UserToken(m.mentions[n].id),
                     <<"@">> \o m.mentions[n].display_name, 1)

RECURSIVE AfterChannels(_, _)
\* the same for the first n listed channels, after all the users
AfterChannels(m, n) ==
    IF n = 0 THEN AfterUsers(m, Len(m.mentions))
    ELSE Substituted(AfterChannels(m, n - 1),
                     ChannelToken(m.mention_channels[n].id),
                     <<"#">> \o m.mention_channels[n].name, 1)

\* the role r listed by m can be resolved: m is of a guild, the cache holds
\* the guild, and the guild has the role
Resolvable(m, r) ==
    /\ m.guild_id # NoGuild
    /\ m.guild_id \in DOMAIN GuildCache
    /\ r \in DOMAIN GuildCache[m.guild_id]

RECURSIVE AfterRoles(_, _)
\* the same for the first n listed roles, after all the channels, a role that
\* cannot be resolved leaving the text as it is
AfterRoles(m, n) ==
    IF n = 0 THEN AfterChannels(m, Len(m.mention_channels))
    ELSE IF Resolvable(m, m.mention_roles[n])
         THEN Substituted(AfterRoles(m, n - 1), RoleToken(m.mention_roles[n]),
                          <<"@">> \o GuildCache[m.guild_id][m.mention_roles[n]], 1)
         ELSE AfterRoles(m, n - 1)

\* the body of the formatted text of m
Body(m) == Trim(AfterRoles(m, Len(m.mention_roles)))

\* C13 as stated: for a non-empty raw text format_discord_message returns
\* "<author> (Discord): <body>", body being the substituted text trimmed, or
\* the prefix alone when the body is empty; "<@123> hi" by Ana mentioning
\* Bob gives "Ana (Discord): @Bob hi".
C13_FormatsNonEmptyText ==
    (fout.called /\ fin.content # <<>>) =>
        /\ fout.ok
        /\ \A b \in {Body(fin)} :
              fout.val = IF b = <<>>
                         THEN fin.author.display_name \o DiscordLabel
                         ELSE fin.author.display_name \o DiscordLabel \o <<" ">> \o b

\* C13 amended: for a raw text that is not blank (it holds a character that
\* is not whitespace) format_discord_message returns
\* "<author> (Discord): <body>", body being the text with the tokens of the
\* listed users, then channels, then resolvable roles replaced one mention
\* at a time in list order, trimmed; the body is never empty, so the prefix
\* is never returned alone; "<@123> hi" by Ana mentioning Bob gives
\* "Ana (Discord): @Bob hi".
C13_FormatsNonBlankText ==
    (fout.called /\ ~IsBlank(fin)) =>
        /\ fout.ok
        /\ \A b \in {Body(fin)} :
              /\ b # <<>>
              /\ fout.val = fin.author.display_name \o DiscordLabel \o <<" ">> \o b
        /\ fin = ExampleMsg =>
              fout.val = <<"A", "n", "a", " ", "(", "D", "i", "s", "c", "o", "r",
                           "d", ")", ":", " ", "@", "B", "o", "b", " ", "h", "i">>

\* C13 witness: the formatter returned a text for a message that repeats the
\* token of a listed user between other characters
C13_Witness ==
    /\ fout.called /\ fout.ok
    /\ fin.content = <<"h", "<", "@", "1", ">", "<", "@", "1", ">">>
    /\ fin.mentions = <<User1, User2>>

\* C14: for a raw text that is empty or of whitespace only
\* format_discord_message fails with the EmptyContent error ("no content
\* found!") and returns no text, whatever users, channels and roles the
\* message lists and whatever its guild.
C14_BlankTextIsEmptyContent ==
    (fout.called /\ IsBlank(fin)) => (~fout.ok /\ fout.val = <<>>)

\* C14 witness: the formatter was called on a text of two spaces that lists
\* two users, a channel and a role outside a guild
C14_Witness ==
    /\ fout.called
    /\ fin.content = <<" ", " ">>
    /\ fin.mentions = <<User2, User1>>
    /\ fin.mention_channels # <<>>
    /\ fin.mention_roles = <<3>> /\ fin.guild_id = NoGuild

\* the create_record input x is the one forward_message has to build for the
\* message m under the mapping string e
IsSubmissionFor(x, e, m) ==
    /\ x.repo = BridgeDid
    /\ x.collection = "place.stream.chat.message"
    /\ x.validate = FALSE
    /\ \A d \in {get_streamer_for_channel(e, to_string(m.channel_id))} :
          d.ok /\ x.record.streamer = d.val
    /\ \A t \in {format_discord_message(GuildCache, m)} :
          t.ok /\ x.record.text = t.val
    /\ x.record.facets = "None"
    /\ x.record.reply = "None"

\* C15: every submission forward_message makes (the input it hands to
\* create_record, and so every record stored) names the session's own DID as
\* repo, the collection place.stream.chat.message and validate = false, and
\* carries a record whose streamer is what the directory maps the message's
\* channel id to, whose text is format_discord_message's result for that
\* message, and whose facets and reply are absent.
C15_SubmissionFields ==
    /\ \A i \in Invocations :
          input[i] # <<>> => IsSubmissionFor(input[i][1], env, msg[i])
    /\ \A k \in DOMAIN store :
          IsSubmissionFor(store[k].input, env, msg[store[k].inv])

\* C15 witness: a record with a substituted mention was stored for channel 1
C15_Witness ==
    \E k \in DOMAIN store :
        /\ store[k].input.record.text =
               <<"A", "n", "a", " ", "(", "D", "i", "s", "c", "o", "r", "d", ")",
                 ":", " ", "@", "B", "o", "b", " ", "h", "i">>
        /\ store[k].input.record.streamer = DidA
        /\ msg[store[k].inv].channel_id = 1

\* how many times pat occurs in s
Occurrences(s, pat) ==
    Cardinality({k \in 1..(Len(s) - Len(pat) + 1) :
                    SubSeq(s, k, k + Len(pat) - 1) = pat})

\* the roles m lists that cannot be resolved
Unresolved(m) ==
    {r \in {m.mention_roles[k] : k \in Indices(m.mention_roles)} :
        ~Resolvable(m, r)}

\* m listing only the roles that can be resolved
ResolvableOnly(m) ==
    [m EXCEPT !.mention_roles =
        SelectSeq(m.mention_roles, LAMBDA r : Resolvable(m, r))]

\* C16: when a listed role cannot be resolved (no guild id, guild not in the
\* cache, or role not among the guild's roles), format_discord_message still
\* returns a text for a non-blank message, the role's token "<@&id>" occurs in
\* it as often as in the raw text, and the text is the one the message gets
\* with only its resolvable roles listed: the user, channel and other role
\* mentions are substituted as usual.
C16_UnresolvedRoleLeftAsIs ==
    (fout.called /\ ~IsBlank(fin) /\ Unresolved(fin) # {}) =>
        /\ fout.ok
        /\ \A r \in Unresolved(fin) :
              Occurrences(fout.val, RoleToken(r)) =
                  Occurrences(fin.content, RoleToken(r))
        /\ fout.val = fin.author.display_name \o DiscordLabel \o <<" ">>
                          \o Body(ResolvableOnly(fin))

\* C16 witness: role 4 is not a role of guild 9, role 3 is, and the text
\* "<@&4><@&3><@1>" came out as "<@&4>@mod@2"
C16_Witness ==
    /\ fout.called /\ fout.ok
    /\ fin.mention_roles = <<4, 3>> /\ fin.guild_id = 9
    /\ fin.mentions = <<User1>>
    /\ fin.content = RoleToken(4) \o RoleToken(3) \o UserToken(1)
    /\ fout.val = fin.author.display_name \o DiscordLabel \o <<" ">>
                      \o RoleToken(4) \o <<"@", "m", "o", "d", "@", "2">>

\* the outcomes the handler can end with for the message m when it is the
\* only message handled, d being the directory: one outcome up to the session
\* and the submission, whose answers are the remote side's
AloneOutcomes(d, m) ==
    IF to_string(m.channel_id) \notin DOMAIN d THEN {"not_forwarded"}
    ELSE IF IsSkipped(m) THEN {"skip"}
    ELSE IF IsBlank(m) THEN {"EmptyContent"}
    ELSE IF IsValidDid(d[to_string(m.channel_id)])
         THEN {"NoActiveSession", "SubmissionFailed", "forwarded"}
         ELSE {"NoActiveSession", "InvalidDid"}

\* C17: handler invocations running interleaved are independent: each ends
\* with an outcome it could end with when handled alone, the records stored
\* are exactly one per invocation that ended forwarded and none for any
\* other, and each record (stored or in flight) carries the text and the
\* destination of its own invocation's message, never another one's.
C17_InvocationsIndependent ==
    \A d \in {DirectoryOf[env]} :
        /\ \A i \in Invocations :
              /\ pc[i] = "done" => outcome[i] \in AloneOutcomes(d, msg[i])
              /\ Cardinality(Stored(i)) = IF outcome[i] = "forwarded" THEN 1 ELSE 0
              /\ input[i] # <<>> =>
                    /\ input[i][1].record.text =
                           format_discord_message(GuildCache, msg[i]).val
                    /\ input[i][1].record.streamer = d[to_string(msg[i].channel_id)]
        /\ \A k \in DOMAIN store :
              /\ store[k].input.record.text =
                     format_discord_message(GuildCache, msg[store[k].inv]).val
              /\ store[k].input.record.streamer =
                     d[to_string(msg[store[k].inv].channel_id)]

\* C17 witness: two messages with different texts were in flight together
\* and the second one's record was stored first
C17_Witness ==
    /\ Len(store) = 2
    /\ store[1].inv = 2 /\ store[2].inv = 1
    /\ store[1].input.record.text # store[2].input.record.text
    /\ outcome[1] = "forwarded" /\ outcome[2] = "forwarded"

\* C18 as stated: a handler invocation that is complete ended with one of
\* intentional skip, EmptyContent, ChannelNotMapped, NoActiveSession,
\* SubmissionFailed and forwarded (the handler's return for a channel that is
\* not forwarded counted with the skips).
C18_OutcomeAmongListed ==
    \A i \in Invocations :
        pc[i] = "done" =>
            outcome[i] \in {"not_forwarded", "skip", "skip_empty", "EmptyContent",
                            "ChannelNotMapped", "NoActiveSession",
                            "SubmissionFailed", "forwarded"}

\* invocation i has its one outcome exactly when it is complete, and when it
\* called create_record it is complete only with that call's answer
CompleteAfterSubmission(i) ==
    /\ pc[i] = "done" <=> outcome[i] # None
    /\ pc[i] = "done" =>
          outcome[i] \in {"not_forwarded", "skip", "skip_empty", "EmptyContent",
                          "ChannelNotMapped", "NoActiveSession", "InvalidDid",
                          "SubmissionFailed", "forwarded"}
    /\ (pc[i] = "done" /\ calls[i] > 0) =>
          outcome[i] \in {"SubmissionFailed", "forwarded"}
    /\ outcome[i] = "forwarded" <=> Stored(i) # {}

\* C18 amended: every handler invocation, once its event is delivered,
\* eventually completes, given that its task is scheduled and that
\* get_session and create_record each return; it completes with exactly one
\* outcome among not forwarded (channel not in the directory), intentional
\* skip, EmptyContent, ChannelNotMapped, NoActiveSession, the destination
\* identity not parsing as a DID, SubmissionFailed and forwarded; and it is
\* complete only after create_record has returned, never while it is in
\* flight.
\* (An invocation once started never goes back to idle, so that sooner or
\* later every invocation is idle or done for good says that each one started
\* does get done.)
C18_EventuallyCompletes ==
    /\ [](\A i \in Invocations : CompleteAfterSubmission(i))
    /\ [][\A i \in Invocations : pc[i] # "idle" => pc'[i] # "idle"]_pc
    /\ <>[](\A i \in Invocations : pc[i] \in {"idle", "done"})

\* C18 witness: one invocation completed after its submission failed, the
\* other when the destination of its channel did not parse
C18_Witness ==
    /\ \E i \in Invocations :
          pc[i] = "done" /\ calls[i] = 1 /\ outcome[i] = "SubmissionFailed"
    /\ \E i \in Invocations :
          pc[i] = "done" /\ calls[i] = 0 /\ outcome[i] = "InvalidDid"

\* C19: in the event handler a message whose channel id is not in the
\* directory never reaches forward_message, whatever its author and text:
\* the handler returns at once (not forwarded), no text is formatted, no
\* destination resolved, no session acquired, no input built, no create_record
\* call made, nothing stored and nothing logged for it.
C19_UnmappedNeverReachesForward ==
    \A d \in {DirectoryOf[env]} : \A i \in Invocations :
        (pc[i] # "idle" /\ to_string(msg[i].channel_id) \notin DOMAIN d) =>
            /\ pc[i] = "done" /\ outcome[i] = "not_forwarded"
            /\ message_text[i] = <<>> /\ streamer_did[i] = <<>>
            /\ input[i] = <<>> /\ calls[i] = 0
            /\ Stored(i) = {}
            /\ \A e \in errlog : e.inv # i

\* C19 witness: with a mapping string set, a bot's message and a person's
\* message on the unmapped channel 5 were both handled
C19_Witness ==
    /\ env.set
    /\ \A i \in Invocations :
          pc[i] = "done" /\ msg[i].channel_id = 5 /\ outcome[i] = "not_forwarded"
    /\ \E i, j \in Invocations :
          msg[i].author.bot /\ ~msg[j].author.bot /\ ~IsBlank(msg[j])

\* C20: when the directory maps a channel to a string that is not a DID (it
\* does not even begin with "did:"), the
\* directory holds the entry as written (the channel is forwarded and
\* resolves to that string), and forward_message for a message of that
\* channel that passes the guards ahead of the lookup (author not a bot, no
\* command prefix, text not blank) goes on to get_session and ends there with
\* an error, the DID parse error when a session is active: no record is
\* built, create_record is never called and nothing is stored for the
\* channel.
C20_InvalidDestinationFailsLate ==
    \A d \in {DirectoryOf[env]} : \A i \in Invocations :
        \A c \in {to_string(msg[i].channel_id)} :
            (/\ pc[i] \notin {"idle", "forward_message"}
             /\ c \in DOMAIN d
             /\ ~StartsWith(d[c], <<"d", "i", "d", ":">>)
             /\ ~IsSkipped(msg[i]) /\ ~IsBlank(msg[i])) =>
                /\ pc[i] \in {"get_session", "done"}
                /\ streamer_did[i] = d[c]
                /\ pc[i] = "done" =>
                      /\ outcome[i] \in {"InvalidDid", "NoActiveSession"}
                      /\ outcome[i] = "InvalidDid" =>
                            [inv |-> i, error |-> "InvalidDid",
                             channel_id |-> msg[i].channel_id,
                             author |-> msg[i].author.name] \in errlog
                /\ input[i] = <<>> /\ calls[i] = 0 /\ Stored(i) = {}

\* C20 witness: channel 2 is mapped to "x"; one message of it ended with the
\* DID parse error while a session was active, and a message of channel 1 was
\* forwarded
C20_Witness ==
    /\ env.set
    /\ \E i, j \in Invocations :
          /\ pc[i] = "done" /\ msg[i].channel_id = 2
          /\ streamer_did[i] = <<"x">> /\ outcome[i] = "InvalidDid"
          /\ pc[j] = "done" /\ msg[j].channel_id = 1 /\ outcome[j] = "forwarded"

====
